---- MODULE Spec2Model ----
(***************************************************************************)
(* TMT to FHIR converter (rathpanyowat/tmt-to-fhir).                       *)
(*                                                                         *)
(* The model follows src/src/index.js (processTMTData and its helpers      *)
(* removeDuplicateConcepts, validateParentChildReferences) and the eight   *)
(* entity processors under src/src/modules.  Where a module file holds     *)
(* several generations of a processor, the one modelled is the one the     *)
(* entry point loads: the functional SUBS, VTM and GPU processors and the  *)
(* BaseProcessor subclasses for GP, GPP, TPU, TP and TPP.                  *)
(*                                                                         *)
(* A spreadsheet cell is a record [t, v]: t is the JavaScript type of the  *)
(* raw value ("str", "num", "undef"), v its text.  A row is a sequence of  *)
(* cells, a file a sequence of rows.                                       *)
(***************************************************************************)
EXTENDS Integers, Sequences, FiniteSets, TLC

(***************************************************************************)
(* Bounds of the explored inputs.                                          *)
(***************************************************************************)
\* rows over all entity files of one run, relationship-focused inputs
MaxEntityRows == 2
\* rows over all relationship files of one run, relationship-focused inputs
MaxRelRows == 1
\* rows of the entity file, kind-focused inputs
MaxKindRows == 1
\* rows over the relationship files of the kind, kind-focused inputs
MaxKindRels == 2
\* length of the concept sequences handed to the Deduplicator on its own
MaxDedupLen == 3
\* files one processor finds absent
MaxAbsent == 1
MaxTemplateLen == 3
MaxSetupRows == 1
MaxValidateLen == 2
MaxParseRows == 2
MaxOrderRels == 1

Codes == {"1", "2"}

(***************************************************************************)
(* Raw cell values and the JavaScript conversions the code applies.        *)
(***************************************************************************)
S(v) == [t |-> "str", v |-> v]
N(v) == [t |-> "num", v |-> v]
UNDEF == [t |-> "undef", v |-> ""]

\* String(x)
String(c) == IF c.t = "undef" THEN "undefined" ELSE c.v

\* truthiness of a raw value: !x is true of undefined, "" and 0
Truthy(c) == /\ c.t # "undef"
             /\ c.v # ""
             /\ ~(c.t = "num" /\ c.v = "0")

\* row[i], zero-based as in the source
Cell(row, i) == IF i + 1 <= Len(row) THEN row[i + 1] ELSE UNDEF

\* truthiness of a JavaScript string
TruthyStr(s) == s # ""

(***************************************************************************)
(* Entity kinds, file roles.                                               *)
(***************************************************************************)
Kinds == {"SUBS", "VTM", "GP", "GPU", "GPP", "TPU", "TP", "TPP"}

RelFiles == {"substovtm", "vtmtogp", "gptotp", "gptogpu", "gputotpu", "gputogpp",
             "gpptogpp", "gpptotpp", "tptotpu", "tputotpp", "tpptotpp"}

Files == Kinds \cup RelFiles

\* the relationship files each processor looks up (findRelationshipFiles)
findRelationshipFiles(k) ==
  CASE k = "SUBS" -> {"substovtm"}
    [] k = "VTM"  -> {"substovtm", "vtmtogp"}
    [] k = "GP"   -> {"vtmtogp", "gptotp", "gptogpu"}
    [] k = "GPU"  -> {"gptogpu", "gputotpu", "gputogpp"}
    [] k = "GPP"  -> {"gputogpp", "gpptogpp", "gpptotpp"}
    [] k = "TPU"  -> {"gputotpu", "tptotpu", "tputotpp"}
    [] k = "TP"   -> {"gptotp", "tptotpu"}
    [] k = "TPP"  -> {"tputotpp", "gpptotpp", "tpptotpp"}

(***************************************************************************)
(* Concepts and their properties.                                          *)
(***************************************************************************)
Prop(code, value, vtype) == [code |-> code, value |-> value, vtype |-> vtype]

Concept(code, display, property) ==
  [code |-> code, display |-> display, property |-> property]

\* BaseProcessor.createConcept: class, status, abstract = false
createConcept(entityType, code, display) ==
  Concept(code, display,
          << Prop("class", entityType, "code"),
             Prop("status", "active", "code"),
             Prop("abstract", "false", "boolean") >>)

createSUBSConcept(code, display) ==
  Concept(code, display,
          << Prop("class", "SUBS", "code"),
             Prop("status", "active", "code"),
             Prop("abstract", "false", "boolean") >>)

createVTMConcept(code, display) ==
  Concept(code, display,
          << Prop("class", "VTM", "code"),
             Prop("status", "active", "code"),
             Prop("abstract", "false", "boolean") >>)

\* valueBoolean: "true" is a string in the source
createGPUConcept(code, display) ==
  Concept(code, display,
          << Prop("class", "GPU", "code"),
             Prop("status", "active", "code"),
             Prop("abstract", "true", "string") >>)

push(concept, p) == [concept EXCEPT !.property = Append(@, p)]

\* rows.filter(row => row && row.length > 1 && String(row[col]) === code)
FilterRows(rows, col, code) ==
  SelectSeq(rows, LAMBDA row : Len(row) > 1 /\ String(Cell(row, col)) = code)

\* forEach over the selected rows, pushing {code: kind, valueCode: String(row[col])}
RECURSIVE PushAll(_, _, _, _)
PushAll(concept, rows, kind, col) ==
  IF rows = << >> THEN concept
  ELSE PushAll(push(concept, Prop(kind, String(Cell(Head(rows), col)), "code")),
               Tail(rows), kind, col)

\* rows.find(...): the first selected row only
PushFirst(concept, rows, kind, col) ==
  IF rows = << >> THEN concept
  ELSE push(concept, Prop(kind, String(Cell(rows[1], col)), "code"))

addParentRelationship(concept, parentCode, conceptCode) ==
  IF parentCode = conceptCode THEN concept
  ELSE push(concept, Prop("parent", parentCode, "code"))

\* a push without the comparison with the concept's own code
addChildRelationshipUnguarded(concept, childCode, conceptCode) ==
  push(concept, Prop("child", childCode, "code"))

addChildRelationship(concept, childCode, conceptCode) ==
  IF childCode = conceptCode THEN concept
  ELSE push(concept, Prop("child", childCode, "code"))

RECURSIVE AddParents(_, _, _)
AddParents(concept, rows, conceptCode) ==
  IF rows = << >> THEN concept
  ELSE AddParents(addParentRelationship(concept, String(Cell(Head(rows), 0)), conceptCode),
                  Tail(rows), conceptCode)

RECURSIVE AddChildren(_, _, _)
AddChildren(concept, rows, conceptCode) ==
  IF rows = << >> THEN concept
  ELSE AddChildren(addChildRelationship(concept, String(Cell(Head(rows), 1)), conceptCode),
                   Tail(rows), conceptCode)

(***************************************************************************)
(* The relationship steps of each processor.  rel maps a relationship file *)
(* role to its rows.                                                       *)
(***************************************************************************)
\* subsProcessor.js
addVTMChildren(c, subsToVtmRows, subsCode) ==
  PushAll(c, FilterRows(subsToVtmRows, 0, subsCode), "child", 1)

\* the SUBS-to-VTM file read in the other direction
addSUBSParentsReversed(c, subsToVtmRows, vtmCode) ==
  PushAll(c, FilterRows(subsToVtmRows, 0, vtmCode), "parent", 1)

\* vtmProcessor.js
addSUBSParents(c, subsToVtmRows, vtmCode) ==
  PushAll(c, FilterRows(subsToVtmRows, 1, vtmCode), "parent", 0)

addGPChildren(c, vtmToGpRows, vtmCode) ==
  PushAll(c, FilterRows(vtmToGpRows, 0, vtmCode), "child", 1)

\* gpProcessor.js, class GPProcessor
addVTMParent(c, vtmToGpRows, gpCode) ==
  PushFirst(c, FilterRows(vtmToGpRows, 1, gpCode), "parent", 0)

addTPChildren(c, gpToTpRows, gpCode) ==
  PushAll(c, FilterRows(gpToTpRows, 0, gpCode), "child", 1)

addGPUChildren(c, gpToGpuRows, gpCode) ==
  PushAll(c, FilterRows(gpToGpuRows, 0, gpCode), "child", 1)

\* gpuProcessor.js, functional GPU processor
addGPParents(c, gpToGpuRows, gpuCode) ==
  PushAll(c, FilterRows(gpToGpuRows, 1, gpuCode), "parent", 0)

addTPUChildren(c, gpuToTpuRows, gpuCode) ==
  PushAll(c, FilterRows(gpuToTpuRows, 0, gpuCode), "child", 1)

addGPPChildren(c, gpuToGppRows, gpuCode) ==
  PushAll(c, FilterRows(gpuToGppRows, 0, gpuCode), "child", 1)

\* gpuProcessor.js, class GPPProcessor
GPP_addGPUParents(c, gpuToGppRows, gppCode) ==
  AddParents(c, FilterRows(gpuToGppRows, 1, gppCode), gppCode)

GPP_addGPPParents(c, gppToGppRows, gppCode) ==
  AddParents(c, FilterRows(gppToGppRows, 1, gppCode), gppCode)

GPP_addTPPChildren(c, gppToTppRows, gppCode) ==
  AddChildren(c, FilterRows(gppToTppRows, 0, gppCode), gppCode)

GPP_addGPPChildren(c, gppToGppRows, gppCode) ==
  AddChildren(c, FilterRows(gppToGppRows, 0, gppCode), gppCode)

\* tpuProcessor.js, class TPUProcessor
addGPUParent(c, gpuToTpuRows, tpuCode) ==
  PushFirst(c, FilterRows(gpuToTpuRows, 1, tpuCode), "parent", 0)

addTPParent(c, tpToTpuRows, tpuCode) ==
  PushFirst(c, FilterRows(tpToTpuRows, 1, tpuCode), "parent", 0)

TPU_addTPPChildren(c, tpuToTppRows, tpuCode) ==
  PushAll(c, FilterRows(tpuToTppRows, 0, tpuCode), "child", 1)

\* tppProcessor.js, class TPProcessor
addGPParent(c, gpToTpRows, tpCode) ==
  LET gpParent == FilterRows(gpToTpRows, 1, tpCode)
  IN  IF gpParent = << >> THEN c
      ELSE addParentRelationship(c, String(Cell(gpParent[1], 0)), tpCode)

TP_addTPUChildren(c, tpToTpuRows, tpCode) ==
  AddChildren(c, FilterRows(tpToTpuRows, 0, tpCode), tpCode)

\* tppProcessor.js, class TPPProcessor
addTPUParents(c, tpuToTppRows, tppCode) ==
  AddParents(c, FilterRows(tpuToTppRows, 1, tppCode), tppCode)

TPP_addGPPParents(c, gppToTppRows, tppCode) ==
  AddParents(c, FilterRows(gppToTppRows, 1, tppCode), tppCode)

addTPPParents(c, tppToTppRows, tppCode) ==
  AddParents(c, FilterRows(tppToTppRows, 1, tppCode), tppCode)

TPP_addTPPChildren(c, tppToTppRows, tppCode) ==
  AddChildren(c, FilterRows(tppToTppRows, 0, tppCode), tppCode)

(***************************************************************************)
(* The body of each processor's row loop: the concept built for one row.   *)
(***************************************************************************)
processSUBSRow(code, display, rel) ==
  addVTMChildren(createSUBSConcept(code, display), rel["substovtm"], code)

processVTMRow(code, display, rel) ==
  addGPChildren(
    addSUBSParents(createVTMConcept(code, display), rel["substovtm"], code),
    rel["vtmtogp"], code)

\* a GP row whose GPU children are added before its TP children
processGPRowGPUFirst(code, display, rel) ==
  addTPChildren(
    addGPUChildren(
      addVTMParent(createConcept("GP", code, display), rel["vtmtogp"], code),
      rel["gptogpu"], code),
    rel["gptotp"], code)

processGPRow(code, display, rel) ==
  addGPUChildren(
    addTPChildren(
      addVTMParent(createConcept("GP", code, display), rel["vtmtogp"], code),
      rel["gptotp"], code),
    rel["gptogpu"], code)

processGPURow(code, display, rel) ==
  addGPPChildren(
    addTPUChildren(
      addGPParents(createGPUConcept(code, display), rel["gptogpu"], code),
      rel["gputotpu"], code),
    rel["gputogpp"], code)

processGPPRow(code, display, rel) ==
  GPP_addGPPChildren(
    GPP_addTPPChildren(
      GPP_addGPPParents(
        GPP_addGPUParents(createConcept("GPP", code, display), rel["gputogpp"], code),
        rel["gpptogpp"], code),
      rel["gpptotpp"], code),
    rel["gpptogpp"], code)

processTPURow(code, display, rel) ==
  TPU_addTPPChildren(
    addTPParent(
      addGPUParent(createConcept("TPU", code, display), rel["gputotpu"], code),
      rel["tptotpu"], code),
    rel["tputotpp"], code)

processTPRow(code, display, rel) ==
  TP_addTPUChildren(
    addGPParent(createConcept("TP", code, display), rel["gptotp"], code),
    rel["tptotpu"], code)

processTPPRow(code, display, rel) ==
  TPP_addTPPChildren(
    addTPPParents(
      TPP_addGPPParents(
        addTPUParents(createConcept("TPP", code, display), rel["tputotpp"], code),
        rel["gpptotpp"], code),
      rel["tpptotpp"], code),
    rel["tpptotpp"], code)

processRow(k, code, display, rel) ==
  CASE k = "SUBS" -> processSUBSRow(code, display, rel)
    [] k = "VTM"  -> processVTMRow(code, display, rel)
    [] k = "GP"   -> processGPRow(code, display, rel)
    [] k = "GPU"  -> processGPURow(code, display, rel)
    [] k = "GPP"  -> processGPPRow(code, display, rel)
    [] k = "TPU"  -> processTPURow(code, display, rel)
    [] k = "TP"   -> processTPRow(code, display, rel)
    [] k = "TPP"  -> processTPPRow(code, display, rel)

\* determineStartIndex: 1 when rows[0][0] === 'TMTID(<KIND>)', else 0
Header(k) == S("TMTID(" \o k \o ")")

determineStartIndex(k, rows) ==
  IF Len(rows) > 0 /\ Cell(rows[1], 0) = Header(k) THEN 1 ELSE 0

\* processRows: rows i >= startIndex (zero-based) in order; a row without a
\* truthy first cell is skipped; the others give one concept each
RECURSIVE processRows(_, _, _, _)
processRows(k, rows, rel, i) ==
  IF i >= Len(rows) THEN << >>
  ELSE LET row == rows[i + 1]
       IN  IF ~Truthy(Cell(row, 0)) THEN processRows(k, rows, rel, i + 1)
           ELSE LET code == String(Cell(row, 0))
                    display == IF Truthy(Cell(row, 1)) THEN String(Cell(row, 1)) ELSE ""
                IN  << processRow(k, code, display, rel) >>
                      \o processRows(k, rows, rel, i + 1)

\* concepts put in front of the collection
conceptsUnshift(concepts, new) == new \o concepts

\* templateJson.concept.push(concept), for the concepts of one processor in row order
conceptsPush(concepts, new) == concepts \o new

\* processedCount of processRows: incremented with every concept pushed
RECURSIVE processedCount(_, _)
processedCount(rows, i) ==
  IF i >= Len(rows) THEN 0
  ELSE IF ~Truthy(Cell(rows[i + 1], 0)) THEN processedCount(rows, i + 1)
  ELSE 1 + processedCount(rows, i + 1)

(***************************************************************************)
(* removeDuplicateConcepts (index.js): a Map keyed by code, filled in      *)
(* sequence order, keeps the first concept of each truthy code; the result *)
(* is the Map's values in insertion order and the count of removed ones.   *)
(***************************************************************************)
MapHas(uniqueConcepts, code) ==
  \E i \in 1..Len(uniqueConcepts) : uniqueConcepts[i].code = code

\* a Map whose entry is overwritten by every later concept of the same code
RECURSIVE uniqueConceptsMapLastWins(_, _)
uniqueConceptsMapLastWins(concepts, acc) ==
  IF concepts = << >> THEN acc
  ELSE LET concept == Head(concepts)
       IN  IF ~TruthyStr(concept.code)
           THEN uniqueConceptsMapLastWins(Tail(concepts), acc)
           ELSE IF MapHas(acc, concept.code)
           THEN uniqueConceptsMapLastWins(
                  Tail(concepts),
                  [i \in 1..Len(acc) |-> IF acc[i].code = concept.code THEN concept ELSE acc[i]])
           ELSE uniqueConceptsMapLastWins(Tail(concepts), Append(acc, concept))

RECURSIVE uniqueConceptsMap(_, _)
uniqueConceptsMap(concepts, acc) ==
  IF concepts = << >> THEN acc
  ELSE LET concept == Head(concepts)
       IN  IF TruthyStr(concept.code) /\ ~MapHas(acc, concept.code)
           THEN uniqueConceptsMap(Tail(concepts), Append(acc, concept))
           ELSE uniqueConceptsMap(Tail(concepts), acc)

\* a pass that drops only the first duplicate it meets
removeFirstDuplicate(concepts) ==
  LET dups == {i \in 1..Len(concepts) :
                 \E j \in 1..(i - 1) : concepts[j].code = concepts[i].code}
      First == CHOOSE i \in dups : \A j \in dups : i <= j
      kept == IF dups = {} THEN concepts
              ELSE [i \in 1..(Len(concepts) - 1) |->
                      IF i < First THEN concepts[i] ELSE concepts[i + 1]]
  IN  [concept |-> kept, removedCount |-> Len(concepts) - Len(kept)]

removeDuplicateConcepts(concepts) ==
  LET uniqueConcepts == uniqueConceptsMap(concepts, << >>)
  IN  [concept |-> uniqueConcepts,
       removedCount |-> Len(concepts) - Len(uniqueConcepts)]

(***************************************************************************)
(* validateParentChildReferences (index.js).                               *)
(***************************************************************************)
conceptCodes(concepts) ==
  {concepts[i].code : i \in {j \in 1..Len(concepts) : TruthyStr(concepts[j].code)}}

\* property.code === kind && property.valueCode && !conceptCodes.has(property.valueCode)
InvalidRef(property, kind, codes) ==
  /\ property.code = kind
  /\ TruthyStr(property.value)
  /\ property.value \notin codes

\* the {concept, reference} entries one concept contributes, in property order
RECURSIVE RefEntries(_, _, _, _)
RefEntries(code, props, kind, codes) ==
  IF props = << >> THEN << >>
  ELSE (IF InvalidRef(Head(props), kind, codes)
        THEN << [concept |-> code, reference |-> Head(props).value] >>
        ELSE << >>)
       \o RefEntries(code, Tail(props), kind, codes)

RECURSIVE invalidReferences(_, _, _)
invalidReferences(concepts, kind, codes) ==
  IF concepts = << >> THEN << >>
  ELSE RefEntries(Head(concepts).code, Head(concepts).property, kind, codes)
       \o invalidReferences(Tail(concepts), kind, codes)

\* a filter that removes every child reference with the invalid parent references
validPropertiesDroppingChildren(props, codes) ==
  SelectSeq(props, LAMBDA p : p.code # "child" /\ ~InvalidRef(p, "parent", codes))

\* a filter that removes the invalid parent references only
validPropertiesKeepChildren(props, codes) ==
  SelectSeq(props, LAMBDA p : ~InvalidRef(p, "parent", codes))

validProperties(props, codes) ==
  SelectSeq(props, LAMBDA p : ~InvalidRef(p, "parent", codes) /\ ~InvalidRef(p, "child", codes))

\* a validator that records and counts the invalid references and removes none
validateNeverCleaning(concepts, cleanupInvalidRefs) ==
  LET codes == conceptCodes(concepts)
      parent == invalidReferences(concepts, "parent", codes)
      child == invalidReferences(concepts, "child", codes)
  IN  [concept |-> concepts,
       valid |-> (Len(parent) + Len(child) = 0),
       invalidReferences |-> [parent |-> parent, child |-> child],
       stats |-> [totalConcepts |-> Len(concepts),
                  invalidParentRefs |-> Len(parent),
                  invalidChildRefs |-> Len(child),
                  removedCount |-> IF cleanupInvalidRefs THEN Len(parent) + Len(child) ELSE 0]]

\* a validator that removes the invalid references whatever the flag
validateAlwaysCleaning(concepts, cleanupInvalidRefs) ==
  LET codes == conceptCodes(concepts)
      parent == invalidReferences(concepts, "parent", codes)
      child == invalidReferences(concepts, "child", codes)
  IN  [concept |-> [i \in 1..Len(concepts) |->
                      [concepts[i] EXCEPT !.property = validProperties(@, codes)]],
       valid |-> (Len(parent) + Len(child) = 0),
       invalidReferences |-> [parent |-> parent, child |-> child],
       stats |-> [totalConcepts |-> Len(concepts),
                  invalidParentRefs |-> Len(parent),
                  invalidChildRefs |-> Len(child),
                  removedCount |-> IF cleanupInvalidRefs THEN Len(parent) + Len(child) ELSE 0]]

validateParentChildReferences(concepts, cleanupInvalidRefs) ==
  LET codes == conceptCodes(concepts)
      parent == invalidReferences(concepts, "parent", codes)
      child == invalidReferences(concepts, "child", codes)
      removed == Len(parent) + Len(child)
  IN  [concept |->
         IF cleanupInvalidRefs
         THEN [i \in 1..Len(concepts) |->
                 [concepts[i] EXCEPT !.property = validProperties(@, codes)]]
         ELSE concepts,
       valid |-> (Len(parent) + Len(child) = 0),
       invalidReferences |-> [parent |-> parent, child |-> child],
       stats |-> [totalConcepts |-> Len(concepts),
                  invalidParentRefs |-> Len(parent),
                  invalidChildRefs |-> Len(child),
                  removedCount |-> IF cleanupInvalidRefs THEN removed ELSE 0]]

(***************************************************************************)
(* The run of processTMTData (index.js).                                   *)
(***************************************************************************)
VARIABLES
  pc,               \* position in the module's top-level code and in processTMTData
  configFile,       \* config.json: whether it can be read, and what it holds
  templateFile,     \* input/TMT-CS-template.json as it lies on disk
  snapshot,         \* a *_SNAPSHOT.xls file lies in the TMTRF<date> directory
  exitCode,         \* the exit status of the process; -1 while it runs
  outputDocument,   \* the document writeJsonFile(OUTPUT_FILE, ...) was given
  processed,        \* the counts the processor calls returned, in call order
  config,           \* the configuration loaded when the module starts
  templateJson,     \* the document under construction; .concept is its concept list
  rows,             \* what readExcelFile returned for each file read so far
  read,             \* the files found and read so far
  missing,          \* the files a processor looked for and did not find
  focus,            \* the files of the distribution that carry rows in this run
  entLeft,          \* entity rows not yet handed out
  relLeft,          \* relationship rows not yet handed out
  validationResult, \* what validateParentChildReferences returned
  output,           \* the concept list of the written output document
  outputWritten,    \* writeJsonFile(OUTPUT_FILE, ...) has returned
  reportWritten,    \* writeJsonFile(validation-report.json, ...) has returned
  errored,          \* the catch block has run
  failedAt,         \* the step that threw
  tempExists,       \* the temporary extraction directory exists
  stages,           \* the stages that have run to completion, in order
  validationInput,  \* the concept list validateParentChildReferences was given
  dedupCalls        \* the calls of removeDuplicateConcepts: the concept list
                    \* given, the list left in the document, the count returned

\* what the run finds on disk
environment == << configFile, templateFile, snapshot >>

vars == << pc, environment, exitCode, outputDocument, processed, config, templateJson, rows, read, missing, focus, entLeft, relLeft,
           validationResult, output, outputWritten, reportWritten, errored, failedAt,
           tempExists, stages, validationInput, dedupCalls >>

\* an order that calls the TP processor before the TPU processor
ProcessOrderTPFirst == << "SUBS", "VTM", "GP", "GPU", "GPP", "TP", "TPU", "TPP" >>

\* the order of the processor calls in processTMTData
ProcessOrder == << "SUBS", "VTM", "GP", "GPU", "GPP", "TPU", "TP", "TPP" >>

IndexOf(seq, x) == CHOOSE i \in 1..Len(seq) : seq[i] = x

\* the statement that follows the call of processor k
AfterProcessor(k) ==
  LET i == IndexOf(ProcessOrder, k)
  IN  IF i < Len(ProcessOrder) THEN ProcessOrder[i + 1] ELSE "validate"

\* a string, as the sequence of its characters
Version20250407 == << "2", "0", "2", "5", "0", "4", "0", "7" >>

TitlePrefix ==
  << "T", "h", "a", "i", " ", "M", "e", "d", "i", "c", "i", "n", "e", "s", " ",
     "T", "e", "r", "m", "i", "n", "o", "l", "o", "g", "y", " ",
     "(", "T", "M", "T", ")", " " >>

DateSuffix == << "T", "0", "0", ":", "0", "0", ":", "0", "0", "+", "0", "7", ":", "0", "0" >>

\* if (!versionDate || versionDate.length !== 8) return "";
\* `${year}-${month}-${day}T00:00:00+07:00` of the three substrings
formatDateFromVersion(versionDate) ==
  IF versionDate = << >> \/ Len(versionDate) # 8
  THEN << >>
  ELSE LET year == SubSeq(versionDate, 1, 4)
           month == SubSeq(versionDate, 5, 6)
           day == SubSeq(versionDate, 7, 8)
       IN  year \o << "-" >> \o month \o << "-" >> \o day \o DateSuffix

\* the template file: one seed concept with the sentinel code
TemplateConcepts ==
  << Concept("TEMPLATE", "TEMPLATE",
             << Prop("class", "TEMPLATE", "code"),
                Prop("status", "active", "code"),
                Prop("abstract", "false", "string"),
                Prop("parent", "TEMPLATE", "code"),
                Prop("child", "TEMPLATE", "code") >>) >>

\* the template file of the repository
TemplateFile ==
  [version |-> Version20250407,
   title |-> TitlePrefix \o Version20250407,
   date |-> formatDateFromVersion(Version20250407),
   concept |-> TemplateConcepts]

\* before readJsonFile(TEMPLATE_FILE) there is no document
NoDocument == [version |-> << >>, title |-> << >>, date |-> << >>, concept |-> << >>]

\* the configuration the catch block of the load falls back to
DefaultConfig ==
  [version |-> Version20250407,
   fileName |-> "TMT-CS.json",
   hasValidation |-> TRUE,
   cleanupInvalidReferences |-> "true",
   generateReport |-> "true"]

\* `let config;` before the load
NoConfig ==
  [version |-> << >>,
   fileName |-> "",
   hasValidation |-> FALSE,
   cleanupInvalidReferences |-> "undefined",
   generateReport |-> "undefined"]

\* a load with no fallback: config stays as declared when the file cannot be read
loadConfigWithoutFallback(file) == IF file.readable THEN file.content ELSE NoConfig

\* try { config = readJsonFile(configPath) } catch (error) { config = {...} }
loadConfig(file) == IF file.readable THEN file.content ELSE DefaultConfig

\* the configurations explored: a loaded file with both validation flags set
ConfigChoices ==
  [version : {Version20250407},
   fileName : {"TMT-CS.json"},
   hasValidation : {TRUE},
   cleanupInvalidReferences : {"true", "false"},
   generateReport : {"true", "false"}]

\* a flag that is on when the configuration does not carry it
cleanupInvalidRefsDefaultOn(cfg) ==
  IF cfg.hasValidation /\ cfg.cleanupInvalidReferences # "undefined"
  THEN cfg.cleanupInvalidReferences = "true"
  ELSE TRUE

\* config.validation && config.validation.cleanupInvalidReferences !== undefined ? ... : false
cleanupInvalidRefs(cfg) ==
  IF cfg.hasValidation /\ cfg.cleanupInvalidReferences # "undefined"
  THEN cfg.cleanupInvalidReferences = "true"
  ELSE FALSE

\* a test that asks for the validation section only
generateReportIgnoringFlag(cfg) == cfg.hasValidation

\* config.validation && config.validation.generateReport
generateReport(cfg) == cfg.hasValidation /\ cfg.generateReport = "true"

NoResult ==
  [valid |-> TRUE,
   invalidReferences |-> [parent |-> << >>, child |-> << >>],
   stats |-> [totalConcepts |-> 0, invalidParentRefs |-> 0,
              invalidChildRefs |-> 0, removedCount |-> 0]]

(***************************************************************************)
(* The inputs: which rows the files of the distribution hold.              *)
(***************************************************************************)
SeqsUpTo(set, n) == UNION {[1..m -> set] : m \in 0..n}

Min(a, b) == IF a < b THEN a ELSE b

\* the display cell of the i-th row of an entity file
Labels == << "x", "y", "z", "w" >>

EntityRowsOf(codes) == [i \in 1..Len(codes) |-> << N(codes[i]), S(Labels[i]) >>]

\* the rows an entity sheet can hold: a header, a header of the sheet with no
\* second cell, a blank row, a row with an empty first cell, a row with no second
\* cell, two ordinary rows, a row whose code is the number 0 and a row whose
\* second cell is the number 0
RawRows(k) ==
  {<< Header(k), S("name") >>,
   << >>,
   << S(""), S("x") >>,
   << N("1") >>,
   << N("1"), S("x") >>,
   << N("2"), S("y") >>,
   << N("0"), S("x") >>,
   << N("2"), N("0") >>}

\* the contents of the entity file of kind k
EntityFileChoices(k) ==
  IF k \in focus.kinds /\ "sheet" \in DOMAIN focus
  THEN SeqsUpTo(RawRows(k), entLeft)
  ELSE IF k \in focus.kinds
  THEN {EntityRowsOf(cs) : cs \in SeqsUpTo(Codes, Min(entLeft, Len(Labels)))}
  ELSE IF k \in focus.neighbours THEN {EntityRowsOf(<< "1" >>)}
  ELSE {<< >>}

\* the cells of a relationship row: a numeric code, or an empty text cell
NumCells == {N(c) : c \in Codes}

RelCells == NumCells \cup {S("")}

RelRows == {<< a, b >> : a \in focus.cells, b \in focus.cells}

\* the rows of file f in a list of (file, row) pairs
RowsOfFile(lst, f) ==
  LET sel == SelectSeq(lst, LAMBDA e : e[1] = f)
  IN  [i \in 1..Len(sel) |-> sel[i][2]]

\* the contents of the relationship files in fs: functions fs -> rows
RelFileChoices(fs) ==
  LET carrying == fs \cap focus.rels
  IN  {[f \in fs |-> RowsOfFile(lst, f)] : lst \in SeqsUpTo(carrying \X RelRows, relLeft)}

SumLen(fs, contents) ==
  LET RECURSIVE Sum(_)
      Sum(set) == IF set = {} THEN 0
                  ELSE LET f == CHOOSE g \in set : TRUE
                       IN  Len(contents[f]) + Sum(set \ {f})
  IN  Sum(fs)

(***************************************************************************)
(* Initial states.                                                         *)
(***************************************************************************)
\* the kinds at the two ends of a relationship file
Ends(f) == {k \in Kinds : f \in findRelationshipFiles(k)}

InitRun ==
  /\ pc = "loadConfig"
  /\ config = NoConfig
  /\ templateJson = NoDocument
  /\ exitCode = -1
  /\ outputDocument = NoDocument
  /\ processed = << >>
  /\ rows = [f \in Files |-> << >>]
  /\ read = {}
  /\ missing = {}
  /\ validationResult = NoResult
  /\ output = << >>
  /\ outputWritten = FALSE
  /\ reportWritten = FALSE
  /\ errored = FALSE
  /\ failedAt = "none"
  /\ tempExists = FALSE
  /\ stages = << >>
  /\ validationInput = << >>
  /\ dedupCalls = << >>

\* inputs whose rows lie in one relationship file and the entity files at its ends
Init ==
  /\ InitRun
  /\ configFile \in [readable : {TRUE}, content : ConfigChoices]
  /\ templateFile = TemplateFile
  /\ snapshot = TRUE
  /\ \E f \in RelFiles : focus = [kinds |-> Ends(f), neighbours |-> {}, rels |-> {f}, cells |-> RelCells]
  /\ entLeft = MaxEntityRows
  /\ relLeft = MaxRelRows

\* inputs whose rows lie in the files of one kind, all cells numeric codes; every
\* kind it is related to has the one entity row of code 1
InitKind ==
  /\ InitRun
  /\ configFile \in [readable : {TRUE},
                      content : {c \in ConfigChoices : c.generateReport = "true"}]
  /\ templateFile = TemplateFile
  /\ snapshot = TRUE
  /\ \E k \in Kinds :
        focus = [kinds |-> {k},
                 neighbours |-> UNION {Ends(f) : f \in findRelationshipFiles(k)} \ {k},
                 rels |-> findRelationshipFiles(k),
                 cells |-> NumCells]
  /\ entLeft = MaxKindRows
  /\ relLeft = MaxKindRels

(***************************************************************************)
(* Steps.                                                                  *)
(***************************************************************************)
\* a statement throws: control passes to the catch block, then to finally
Throw(step) ==
  /\ errored' = TRUE
  /\ failedAt' = step
  /\ pc' = "finally"

\* the load of config.json when the module starts; processTMTData() is called next
LoadConfig ==
  /\ pc = "loadConfig"
  /\ config' = loadConfig(configFile)
  /\ pc' = "ensureDir"
  /\ UNCHANGED << environment, exitCode, outputDocument, processed,
                  templateJson, rows, read, missing, focus, entLeft, relLeft,
                  validationResult, output, outputWritten, reportWritten, errored,
                  failedAt, tempExists, stages, validationInput, dedupCalls >>

\* ensureDir(OUTPUT_DIR); ensureDir(EXTRACT_DIR)
EnsureDirs ==
  /\ pc = "ensureDir"
  /\ \/ /\ tempExists' = TRUE
        /\ pc' = "extractZip"
        /\ UNCHANGED << errored, failedAt >>
     \/ /\ Throw("ensureDir")
        /\ UNCHANGED tempExists
  /\ UNCHANGED << environment, exitCode, outputDocument, processed,
                  config, templateJson, rows, read, missing, focus, entLeft, relLeft,
                  validationResult, output, outputWritten, reportWritten, stages,
                  validationInput, dedupCalls >>

\* extractZip(ZIP_FILE, EXTRACT_DIR)
ExtractZip ==
  /\ pc = "extractZip"
  /\ \/ /\ pc' = "readTemplate"
        /\ UNCHANGED << errored, failedAt >>
     \/ Throw("extractZip")
  /\ UNCHANGED << environment, exitCode, outputDocument, processed,
                  config, templateJson, rows, read, missing, focus, entLeft, relLeft,
                  validationResult, output, outputWritten, reportWritten, tempExists,
                  stages, validationInput, dedupCalls >>

\* no filter: the seed concept stays in the document
keepTemplateConcept(concepts) == concepts

\* templateJson.concept.filter(concept => concept.code !== 'TEMPLATE')
withoutTemplateConcept(concepts) == SelectSeq(concepts, LAMBDA c : c.code # "TEMPLATE")

\* readJsonFile(TEMPLATE_FILE); version, date and title are set from the
\* configuration, then the TEMPLATE concept is filtered out
ReadTemplate ==
  /\ pc = "readTemplate"
  /\ \/ /\ templateJson' =
             [version |-> config.version,
              date |-> formatDateFromVersion(config.version),
              title |-> TitlePrefix \o config.version,
              concept |-> withoutTemplateConcept(templateFile.concept)]
        /\ pc' = "findDirs"
        /\ UNCHANGED << errored, failedAt >>
     \/ /\ Throw("readTemplate")
        /\ UNCHANGED templateJson
  /\ UNCHANGED << environment, exitCode, outputDocument, processed,
                  config, rows, read, missing, focus, entLeft, relLeft,
                  validationResult, output, outputWritten, reportWritten, tempExists,
                  stages, validationInput, dedupCalls >>

\* exploreDirectory and the lookup of the TMTRF<date> and TMTRF<date>_BONUS directories
FindDirs ==
  /\ pc = "findDirs"
  /\ \/ /\ pc' = ProcessOrder[1]
        /\ UNCHANGED << errored, failedAt >>
     \/ Throw("findDirs")
  /\ UNCHANGED << environment, exitCode, outputDocument, processed,
                  config, templateJson, rows, read, missing, focus, entLeft, relLeft,
                  validationResult, output, outputWritten, reportWritten, tempExists,
                  stages, validationInput, dedupCalls >>

\* a processor that insists on its entity file only
requiredFilesEntityOnly(k) == {k}

\* the files processor k refuses to run without: the entity file (process) and
\* every relationship file (validateRelationshipFiles)
requiredFiles(k) == {k} \cup findRelationshipFiles(k)

\* process(templateJson, ...) of processor k. The files it looks for and does not
\* find are `absent`: without a required one the error propagates; otherwise the
\* files are read and one concept is appended per data row
Process(k) ==
  /\ pc = k
  /\ \E absent \in SUBSET (({k} \cup findRelationshipFiles(k)) \ (read \cup missing)) :
       /\ Cardinality(absent) <= MaxAbsent
       /\ missing' = missing \cup absent
       /\ IF (missing \cup absent) \cap requiredFiles(k) # {}
          THEN /\ Throw(k)
               /\ UNCHANGED << templateJson, rows, read, entLeft, relLeft, stages,
                               processed >>
          ELSE LET unread == findRelationshipFiles(k) \ (read \cup missing \cup absent)
               IN  /\ \E entityRows \in EntityFileChoices(k),
                         relRows \in RelFileChoices(unread) :
                         LET all == [f \in Files |-> IF f = k THEN entityRows
                                                    ELSE IF f \in unread THEN relRows[f]
                                                    ELSE rows[f]]
                         IN  /\ rows' = all
                             /\ entLeft' = IF k \in focus.kinds
                                            THEN entLeft - Len(entityRows)
                                            ELSE entLeft
                             /\ relLeft' = relLeft - SumLen(unread, relRows)
                             /\ templateJson' =
                                  [templateJson EXCEPT !.concept =
                                     conceptsPush(@, processRows(k, entityRows, all,
                                                     determineStartIndex(k, entityRows)))]
                             /\ processed' =
                                  Append(processed,
                                         processedCount(entityRows,
                                                        determineStartIndex(k, entityRows)))
                   /\ read' = read \cup (({k} \cup findRelationshipFiles(k)) \ (missing \cup absent))
                   /\ stages' = Append(stages, k)
                   /\ pc' = AfterProcessor(k)
                   /\ UNCHANGED << errored, failedAt >>
  /\ UNCHANGED << environment, exitCode, outputDocument,
                  config, focus, validationResult, output, outputWritten,
                  reportWritten, tempExists, validationInput, dedupCalls >>

processSUBSData == Process("SUBS")
processVTMData == Process("VTM")
processGPData == Process("GP")
processGPUData == Process("GPU")
processGPPData == Process("GPP")
processTPUData == Process("TPU")
processTPData == Process("TP")
processTPPData == Process("TPP")

\* const validationResult = validateParentChildReferences(templateJson, cleanupInvalidRefs)
Validate ==
  /\ pc = "validate"
  /\ LET r == validateParentChildReferences(templateJson.concept, cleanupInvalidRefs(config))
     IN  /\ templateJson' = [templateJson EXCEPT !.concept = r.concept]
         /\ validationResult' = [valid |-> r.valid,
                                 invalidReferences |-> r.invalidReferences,
                                 stats |-> r.stats]
  /\ validationInput' = templateJson.concept
  /\ stages' = Append(stages, "validate")
  /\ pc' = "dedup"
  /\ UNCHANGED << environment, exitCode, outputDocument, processed,
                  config, rows, read, missing, focus, entLeft, relLeft, output,
                  outputWritten, reportWritten, errored, failedAt, tempExists,
                  dedupCalls >>

\* removeDuplicateConcepts(templateJson)
Dedup ==
  /\ pc = "dedup"
  /\ LET r == removeDuplicateConcepts(templateJson.concept)
     IN  /\ templateJson' = [templateJson EXCEPT !.concept = r.concept]
         /\ dedupCalls' = Append(dedupCalls, [input |-> templateJson.concept,
                                              output |-> r.concept,
                                              removedCount |-> r.removedCount])
  /\ stages' = Append(stages, "dedup")
  /\ pc' = "write"
  /\ UNCHANGED << environment, exitCode, outputDocument, processed,
                  config, rows, read, missing, focus, entLeft, relLeft,
                  validationResult, output, outputWritten, reportWritten, errored,
                  failedAt, tempExists, validationInput >>

\* writeJsonFile(OUTPUT_FILE, templateJson)
WriteOutput ==
  /\ pc = "write"
  /\ \/ /\ output' = templateJson.concept
        /\ outputDocument' = templateJson
        /\ outputWritten' = TRUE
        /\ stages' = Append(stages, "write")
        /\ pc' = "report"
        /\ UNCHANGED << errored, failedAt >>
     \/ /\ Throw("write")
        /\ UNCHANGED << output, outputDocument, outputWritten, stages >>
  /\ UNCHANGED << environment, exitCode, processed,
                  config, templateJson, rows, read, missing, focus, entLeft, relLeft,
                  validationResult, reportWritten, tempExists, validationInput,
                  dedupCalls >>

\* if (!validationResult.valid && config.validation && config.validation.generateReport)
\*   writeJsonFile(validationFilePath, ...)
WriteReport ==
  /\ pc = "report"
  /\ IF ~validationResult.valid /\ generateReport(config)
     THEN \/ /\ reportWritten' = TRUE
             /\ stages' = Append(stages, "report")
             /\ pc' = "finally"
             /\ UNCHANGED << errored, failedAt >>
          \/ /\ Throw("report")
             /\ UNCHANGED << reportWritten, stages >>
     ELSE /\ pc' = "finally"
          /\ UNCHANGED << reportWritten, stages, errored, failedAt >>
  /\ UNCHANGED << environment, exitCode, outputDocument, processed,
                  config, templateJson, rows, read, missing, focus, entLeft, relLeft,
                  validationResult, output, outputWritten, tempExists, validationInput,
                  dedupCalls >>

\* the exit status of a process whose exitCode nothing has set and in which no
\* exception went uncaught
ExitStatus == 0

\* a finally block that leaves the temporary directory in place
FinallyWithoutCleanup ==
  /\ pc = "finally"
  /\ exitCode' = ExitStatus
  /\ pc' = "done"
  /\ UNCHANGED << environment, outputDocument, processed,
                  config, templateJson, rows, read, missing, focus, entLeft, relLeft,
                  validationResult, output, outputWritten, reportWritten, errored,
                  failedAt, tempExists, stages, validationInput, dedupCalls >>

\* finally { cleanupDir(EXTRACT_DIR) }; processTMTData() returns and the process,
\* with nothing left to run, exits
Finally ==
  /\ pc = "finally"
  /\ tempExists' = FALSE
  /\ exitCode' = ExitStatus
  /\ pc' = "done"
  /\ UNCHANGED << environment, outputDocument, processed,
                  config, templateJson, rows, read, missing, focus, entLeft, relLeft,
                  validationResult, output, outputWritten, reportWritten, errored,
                  failedAt, stages, validationInput, dedupCalls >>

Next ==
  \/ LoadConfig
  \/ EnsureDirs
  \/ ExtractZip
  \/ ReadTemplate
  \/ FindDirs
  \/ processSUBSData
  \/ processVTMData
  \/ processGPData
  \/ processGPUData
  \/ processGPPData
  \/ processTPUData
  \/ processTPData
  \/ processTPPData
  \/ Validate
  \/ Dedup
  \/ WriteOutput
  \/ WriteReport
  \/ Finally

Spec == Init /\ [][Next]_vars

SpecKind == InitKind /\ [][Next]_vars

(***************************************************************************)
(* Runs over what the module finds when it starts: config.json, the        *)
(* template file and the snapshot file, with the rows of one entity file.  *)
(***************************************************************************)
\* version strings: two dates, one character short, one too long, empty, and
\* eight characters of which the last is a letter
Versions ==
  {Version20250407,
   << "2", "0", "2", "4", "1", "2", "3", "1" >>,
   SubSeq(Version20250407, 1, 7),
   Version20250407 \o << "1" >>,
   << >>,
   [Version20250407 EXCEPT ![8] = "a"]}

\* config.json: unreadable, or holding a version with both flags set, or the
\* default version with a flag cleared, or absent, or with no validation section
ConfigFiles ==
  {[readable |-> FALSE, content |-> NoConfig]}
  \cup {[readable |-> TRUE, content |-> [DefaultConfig EXCEPT !.version = v]] : v \in Versions}
  \cup {[readable |-> TRUE, content |-> c] :
          c \in {[DefaultConfig EXCEPT !.fileName = "out.json"],
                 [DefaultConfig EXCEPT !.generateReport = "false"],
                 [DefaultConfig EXCEPT !.cleanupInvalidReferences = "undefined"],
                 [DefaultConfig EXCEPT !.hasValidation = FALSE,
                                       !.cleanupInvalidReferences = "undefined",
                                       !.generateReport = "undefined"]}}

\* a concept a template file holds besides the seed
SeedConcept(code) == Concept(code, code, << Prop("class", "TEMPLATE", "code") >>)

TemplatePool == {TemplateConcepts[1], SeedConcept("A"), SeedConcept("B")}

\* template files: the header of an older release and up to MaxTemplateLen concepts
TemplateFiles ==
  LET old == << "2", "0", "2", "4", "0", "1", "0", "1" >>
  IN  {[version |-> old,
        title |-> TitlePrefix \o old,
        date |-> formatDateFromVersion(old),
        concept |-> cs] : cs \in SeqsUpTo(TemplatePool, MaxTemplateLen)}

InitSetup ==
  /\ InitRun
  /\ configFile \in ConfigFiles
  /\ templateFile \in TemplateFiles
  /\ snapshot \in BOOLEAN
  /\ focus = [kinds |-> {"TPU"}, neighbours |-> {}, rels |-> {}, cells |-> NumCells]
  /\ entLeft = MaxSetupRows
  /\ relLeft = 0

SpecSetup == InitSetup /\ [][Next]_vars

\* runs in which the entity sheet of one kind holds any rows a sheet can hold
InitRows ==
  /\ InitRun
  /\ configFile = [readable |-> TRUE, content |-> DefaultConfig]
  /\ templateFile = TemplateFile
  /\ snapshot = TRUE
  /\ \E k \in Kinds :
        focus = [kinds |-> {k}, neighbours |-> {}, rels |-> {}, cells |-> NumCells,
                 sheet |-> "raw"]
  /\ entLeft = MaxParseRows
  /\ relLeft = 0

SpecRows == InitRows /\ [][Next]_vars

\* config.json: unreadable, or readable with the cleanup flag true, false or
\* absent, or with no validation section
CleanupConfigFiles ==
  {[readable |-> FALSE, content |-> NoConfig]}
  \cup {[readable |-> TRUE, content |-> c] :
          c \in {DefaultConfig,
                 [DefaultConfig EXCEPT !.cleanupInvalidReferences = "false"],
                 [DefaultConfig EXCEPT !.cleanupInvalidReferences = "undefined"],
                 [DefaultConfig EXCEPT !.hasValidation = FALSE,
                                       !.cleanupInvalidReferences = "undefined",
                                       !.generateReport = "undefined"]}}

\* runs under each of these, on TPU rows and TPU-to-TPP rows with no TPP concept
InitCleanupFlag ==
  /\ InitRun
  /\ configFile \in CleanupConfigFiles
  /\ templateFile = TemplateFile
  /\ snapshot = TRUE
  /\ focus = [kinds |-> {"TPU"}, neighbours |-> {}, rels |-> {"tputotpp"}, cells |-> NumCells]
  /\ entLeft = MaxSetupRows
  /\ relLeft = MaxRelRows

SpecCleanupFlag == InitCleanupFlag /\ [][Next]_vars

\* every statement control reaches is executed
SpecSetupFair == InitSetup /\ [][Next]_vars /\ WF_vars(Next)

(***************************************************************************)
(* removeDuplicateConcepts on its own: any concept sequence, applied twice. *)
(***************************************************************************)
\* the concepts the sequences are drawn from: every code under two displays
ConceptPool == {createConcept("TP", c, d) : c \in Codes, d \in {"x", "y"}}

InitDedup ==
  /\ pc = "apply"
  /\ configFile = [readable |-> TRUE, content |-> DefaultConfig]
  /\ templateFile = TemplateFile
  /\ snapshot = TRUE
  /\ exitCode = -1
  /\ outputDocument = NoDocument
  /\ processed = << >>
  /\ config = loadConfig(configFile)
  /\ \E concepts \in SeqsUpTo(ConceptPool, MaxDedupLen) :
       templateJson = [version |-> config.version,
                       date |-> formatDateFromVersion(config.version),
                       title |-> TitlePrefix \o config.version,
                       concept |-> concepts]
  /\ rows = [f \in Files |-> << >>]
  /\ read = {}
  /\ missing = {}
  /\ focus = [kinds |-> {}, neighbours |-> {}, rels |-> {}, cells |-> {}]
  /\ entLeft = 0
  /\ relLeft = 0
  /\ validationResult = NoResult
  /\ output = << >>
  /\ outputWritten = FALSE
  /\ reportWritten = FALSE
  /\ errored = FALSE
  /\ failedAt = "none"
  /\ tempExists = TRUE
  /\ stages = << >>
  /\ validationInput = << >>
  /\ dedupCalls = << >>

\* removeDuplicateConcepts(templateJson), called on the document it has returned
\* as well as on a fresh one
ApplyDedup ==
  /\ pc = "apply"
  /\ Len(dedupCalls) < 2
  /\ LET r == removeDuplicateConcepts(templateJson.concept)
     IN  /\ templateJson' = [templateJson EXCEPT !.concept = r.concept]
         /\ dedupCalls' = Append(dedupCalls, [input |-> templateJson.concept,
                                              output |-> r.concept,
                                              removedCount |-> r.removedCount])
  /\ stages' = Append(stages, "dedup")
  /\ UNCHANGED << pc, environment, exitCode, outputDocument, processed,
                  config, rows, read, missing, focus, entLeft, relLeft,
                  validationResult, output, outputWritten, reportWritten, errored,
                  failedAt, tempExists, validationInput >>

SpecDedup == InitDedup /\ [][ApplyDedup]_vars

(***************************************************************************)
(* validateParentChildReferences on its own: any concept sequence, with    *)
(* the cleanup flag set and cleared.                                       *)
(***************************************************************************)
\* the valueCodes of the parent, and of the child, properties of a concept: none,
\* the code of a concept there may be, a code of no concept, the empty string
ParentChoices == {<< >>, << "2" >>, << "3" >>, << "" >>, << "3", "1" >>}

ChildChoices == {<< >>, << "1" >>, << "3" >>}

\* a concept as a processor leaves it: createConcept, then the parent and the
\* child properties pushed
ConceptWith(code, parents, children) ==
  LET c == createConcept("TP", code, "x")
  IN  [c EXCEPT !.property =
         @ \o [i \in 1..Len(parents) |-> Prop("parent", parents[i], "code")]
           \o [i \in 1..Len(children) |-> Prop("child", children[i], "code")]]

ValidatePool ==
  {ConceptWith(c, ps, cs) : c \in Codes, ps \in ParentChoices, cs \in ChildChoices}

InitValidate ==
  /\ pc = "applyValidate"
  /\ configFile \in {[readable |-> TRUE, content |-> c] :
                       c \in {DefaultConfig,
                              [DefaultConfig EXCEPT !.cleanupInvalidReferences = "false"]}}
  /\ templateFile = TemplateFile
  /\ snapshot = TRUE
  /\ exitCode = -1
  /\ outputDocument = NoDocument
  /\ processed = << >>
  /\ config = loadConfig(configFile)
  /\ \E concepts \in SeqsUpTo(ValidatePool, MaxValidateLen) :
       templateJson = [version |-> config.version,
                       date |-> formatDateFromVersion(config.version),
                       title |-> TitlePrefix \o config.version,
                       concept |-> concepts]
  /\ rows = [f \in Files |-> << >>]
  /\ read = {}
  /\ missing = {}
  /\ focus = [kinds |-> {}, neighbours |-> {}, rels |-> {}, cells |-> {}]
  /\ entLeft = 0
  /\ relLeft = 0
  /\ validationResult = NoResult
  /\ output = << >>
  /\ outputWritten = FALSE
  /\ reportWritten = FALSE
  /\ errored = FALSE
  /\ failedAt = "none"
  /\ tempExists = TRUE
  /\ stages = << >>
  /\ validationInput = << >>
  /\ dedupCalls = << >>

\* validateParentChildReferences(templateJson, cleanupInvalidRefs), called once
ApplyValidate ==
  /\ pc = "applyValidate"
  /\ stages = << >>
  /\ LET r == validateParentChildReferences(templateJson.concept, cleanupInvalidRefs(config))
     IN  /\ templateJson' = [templateJson EXCEPT !.concept = r.concept]
         /\ validationResult' = [valid |-> r.valid,
                                 invalidReferences |-> r.invalidReferences,
                                 stats |-> r.stats]
  /\ validationInput' = templateJson.concept
  /\ stages' = Append(stages, "validate")
  /\ UNCHANGED << pc, environment, exitCode, outputDocument, processed,
                  config, rows, read, missing, focus, entLeft, relLeft, output,
                  outputWritten, reportWritten, errored, failedAt, tempExists,
                  dedupCalls >>

SpecValidate == InitValidate /\ [][ApplyValidate]_vars

\* validateParentChildReferences(templateJson, true), called on the collection a
\* first call with cleanup has left; validationInput keeps the list the first
\* call was given
ApplyValidateAgain ==
  /\ pc = "applyValidate"
  /\ stages = << "validate" >>
  /\ cleanupInvalidRefs(config)
  /\ LET r == validateParentChildReferences(templateJson.concept, cleanupInvalidRefs(config))
     IN  /\ templateJson' = [templateJson EXCEPT !.concept = r.concept]
         /\ validationResult' = [valid |-> r.valid,
                                 invalidReferences |-> r.invalidReferences,
                                 stats |-> r.stats]
  /\ stages' = Append(stages, "validate")
  /\ UNCHANGED << pc, environment, exitCode, outputDocument, processed,
                  config, rows, read, missing, focus, entLeft, relLeft, output,
                  outputWritten, reportWritten, errored, failedAt, tempExists,
                  validationInput, dedupCalls >>

SpecValidateTwice == InitValidate /\ [][ApplyValidate \/ ApplyValidateAgain]_vars

(***************************************************************************)
(* The eight processors on their own, called in any order on the files of  *)
(* one distribution.                                                       *)
(***************************************************************************)
\* the rows of relationship file f: up to MaxOrderRels rows of numeric codes
OrderRelChoices == SeqsUpTo({<< a, b >> : a \in NumCells, b \in NumCells}, MaxOrderRels)

\* a distribution whose rows lie in relationship file f and, one row each, in the
\* entity files at its ends
InitAnyOrder ==
  /\ pc = "applyProcessors"
  /\ configFile = [readable |-> TRUE, content |-> DefaultConfig]
  /\ templateFile = TemplateFile
  /\ snapshot = TRUE
  /\ exitCode = -1
  /\ outputDocument = NoDocument
  /\ processed = << >>
  /\ config = loadConfig(configFile)
  /\ templateJson = [version |-> config.version,
                     date |-> formatDateFromVersion(config.version),
                     title |-> TitlePrefix \o config.version,
                     concept |-> withoutTemplateConcept(templateFile.concept)]
  /\ \E f \in RelFiles :
       /\ focus = [kinds |-> Ends(f), neighbours |-> {}, rels |-> {f}, cells |-> NumCells]
       /\ \E codeOf \in [Ends(f) -> Codes], rel \in OrderRelChoices :
            rows = [g \in Files |-> IF g \in Ends(f) THEN EntityRowsOf(<< codeOf[g] >>)
                                    ELSE IF g = f THEN rel
                                    ELSE << >>]
  /\ read = {}
  /\ missing = {}
  /\ entLeft = 0
  /\ relLeft = 0
  /\ validationResult = NoResult
  /\ output = << >>
  /\ outputWritten = FALSE
  /\ reportWritten = FALSE
  /\ errored = FALSE
  /\ failedAt = "none"
  /\ tempExists = TRUE
  /\ stages = << >>
  /\ validationInput = << >>
  /\ dedupCalls = << >>

\* a processor that leaves out the rows whose code a concept of the collection has
ApplyProcessorSkippingKnownCodes(k) ==
  /\ pc = "applyProcessors"
  /\ k \notin read
  /\ templateJson' =
       [templateJson EXCEPT !.concept =
          @ \o SelectSeq(processRows(k, rows[k], rows, determineStartIndex(k, rows[k])),
                         LAMBDA c : \A i \in 1..Len(templateJson.concept) :
                                      templateJson.concept[i].code # c.code)]
  /\ read' = read \cup {k}
  /\ UNCHANGED << pc, environment, exitCode, outputDocument, processed,
                  config, rows, missing, focus, entLeft, relLeft, validationResult,
                  output, outputWritten, reportWritten, errored, failedAt, tempExists,
                  stages, validationInput, dedupCalls >>

\* process(templateJson, ...) of processor k, all of its files found; the kinds
\* whose processor has been called are kept in `read`
ApplyProcessor(k) ==
  /\ pc = "applyProcessors"
  /\ k \notin read
  /\ templateJson' =
       [templateJson EXCEPT !.concept =
          conceptsPush(@, processRows(k, rows[k], rows, determineStartIndex(k, rows[k])))]
  /\ read' = read \cup {k}
  /\ UNCHANGED << pc, environment, exitCode, outputDocument, processed,
                  config, rows, missing, focus, entLeft, relLeft, validationResult,
                  output, outputWritten, reportWritten, errored, failedAt, tempExists,
                  stages, validationInput, dedupCalls >>

ApplyAnyProcessor == \E k \in Kinds : ApplyProcessor(k)

SpecAnyOrder == InitAnyOrder /\ [][ApplyAnyProcessor]_vars

(***************************************************************************)
(* Properties.                                                             *)
(***************************************************************************)
Range(seq) == {seq[i] : i \in 1..Len(seq)}

\* the valueCodes of the properties of concept c named name, in order
ValuesOf(c, name) ==
  LET sel == SelectSeq(c.property, LAMBDA p : p.code = name)
  IN  [i \in 1..Len(sel) |-> sel[i].value]

\* the kind concept c was synthesized as
KindOf(c) == c.property[1].value

\* every processor has run
ProcessorsDone == Len(stages) >= 8 /\ stages[8] = "TPP"

\* C1: after the eight processors have run, no concept has a parent or child
\* property whose valueCode is the concept's own code.
C1_NoSelfReference ==
  ProcessorsDone =>
    \A c \in Range(templateJson.concept) :
      /\ c.code \notin Range(ValuesOf(c, "parent"))
      /\ c.code \notin Range(ValuesOf(c, "child"))

\* C2: with cleanup enabled, every parent and child valueCode of the written
\* document is the code of a concept of that document.
C2_OutputReferencesResolve ==
  (outputWritten /\ cleanupInvalidRefs(config)) =>
    \A c \in Range(output) :
      \A v \in Range(ValuesOf(c, "parent")) \cup Range(ValuesOf(c, "child")) :
        \E d \in Range(output) : d.code = v

\* the positions of `concepts` that hold the first concept of their code
Firsts(concepts) ==
  {i \in 1..Len(concepts) : \A j \in 1..(i - 1) : concepts[j].code # concepts[i].code}

\* the n-th of these positions
NthFirst(concepts, n) ==
  CHOOSE i \in Firsts(concepts) : Cardinality({j \in Firsts(concepts) : j <= i}) = n

\* C3: removeDuplicateConcepts leaves exactly the first concept of each code, in
\* the order they had, each equal to the first one met with that code, and returns
\* the input length minus the output length.
C3_FirstOccurrenceKept ==
  \A k \in 1..Len(dedupCalls) :
    LET call == dedupCalls[k]
    IN  /\ Len(call.output) = Cardinality(Firsts(call.input))
        /\ \A n \in 1..Len(call.output) : call.output[n] = call.input[NthFirst(call.input, n)]
        /\ call.removedCount = Len(call.input) - Len(call.output)
        /\ templateJson.concept = dedupCalls[Len(dedupCalls)].output

\* a call removed a later concept that differs from the kept one of its code, and
\* kept concepts of two codes
C3_Witness ==
  /\ Len(dedupCalls) >= 1
  /\ LET call == dedupCalls[1]
     IN  /\ call.removedCount >= 1
         /\ Len(call.output) >= 2
         /\ \E i, j \in 1..Len(call.input) :
              /\ i < j
              /\ call.input[i].code = call.input[j].code
              /\ call.input[i] # call.input[j]

\* C4: a second application of removeDuplicateConcepts changes nothing and
\* removes 0 concepts, and no two concepts of an output share a code.
C4_DedupIdempotent ==
  /\ \A k \in 1..Len(dedupCalls) :
       \A i, j \in 1..Len(dedupCalls[k].output) :
         dedupCalls[k].output[i].code = dedupCalls[k].output[j].code => i = j
  /\ Len(dedupCalls) = 2 =>
       /\ dedupCalls[2].input = dedupCalls[1].output
       /\ dedupCalls[2].output = dedupCalls[2].input
       /\ dedupCalls[2].removedCount = 0

\* the second application was given what a first one left after removing concepts
C4_Witness ==
  /\ Len(dedupCalls) = 2
  /\ dedupCalls[1].removedCount >= 1
  /\ Len(dedupCalls[2].input) >= 2

\* C5: the stages run in the order processors, Deduplicator, Reference Validator,
\* serialization: when the validator runs the Deduplicator has run before it, and
\* the concept list the validator is given holds no two concepts of one code.
C5_DedupBeforeValidation ==
  \A i \in 1..Len(stages) :
    stages[i] = "validate" =>
      /\ \E j \in 1..(i - 1) : stages[j] = "dedup"
      /\ \A m, n \in 1..Len(validationInput) :
           validationInput[m].code = validationInput[n].code => m = n

\* C6: a concept of kind GP, GPU or TPU carries the boolean abstract = true, a
\* concept of any other kind the boolean abstract = false.
C6_AbstractByKind ==
  \A c \in Range(templateJson.concept) :
    c.property[3] =
      Prop("abstract",
           IF KindOf(c) \in {"GP", "GPU", "TPU"} THEN "true" ELSE "false",
           "boolean")

\* C10: a run that ends through the error path has not written the output
\* document.
C10_FailedRunNoOutput == errored => ~outputWritten

\* the kinds in the order the document lists them
KindOrder == << "SUBS", "VTM", "GP", "GPU", "GPP", "TPU", "TP", "TPP" >>

Rank(k) == IndexOf(KindOrder, k)

RECURSIVE IsSubseq(_, _)
IsSubseq(a, b) ==
  IF a = << >> THEN TRUE
  ELSE IF b = << >> THEN FALSE
  ELSE IF Head(a) = Head(b) THEN IsSubseq(Tail(a), Tail(b))
  ELSE IsSubseq(a, Tail(b))

\* the relationship files that give a kind its parents and its children, in the
\* order the kind is configured with
ParentSources ==
  [k \in Kinds |->
     CASE k = "SUBS" -> << >>
       [] k = "VTM" -> << "substovtm" >>
       [] k = "GP" -> << "vtmtogp" >>
       [] k = "GPU" -> << "gptogpu" >>
       [] k = "GPP" -> << "gputogpp", "gpptogpp" >>
       [] k = "TP" -> << "gptotp" >>
       [] k = "TPU" -> << "gputotpu", "tptotpu" >>
       [] k = "TPP" -> << "tputotpp", "gpptotpp", "tpptotpp" >>]

ChildSources ==
  [k \in Kinds |->
     CASE k = "SUBS" -> << "substovtm" >>
       [] k = "VTM" -> << "vtmtogp" >>
       [] k = "GP" -> << "gptotp", "gptogpu" >>
       [] k = "GPU" -> << "gputotpu", "gputogpp" >>
       [] k = "GPP" -> << "gpptotpp", "gpptogpp" >>
       [] k = "TP" -> << "tptotpu" >>
       [] k = "TPU" -> << "tputotpp" >>
       [] k = "TPP" -> << "tpptotpp" >>]

\* the cells of column `take` of the rows of `file` whose column `match` is code,
\* as text, in row order (columns counted from 0)
RelatedIn(file, match, take, code) ==
  LET sel == SelectSeq(rows[file], LAMBDA r : Len(r) > 1 /\ String(r[match + 1]) = code)
  IN  [i \in 1..Len(sel) |-> String(sel[i][take + 1])]

RECURSIVE RelatedOver(_, _, _, _)
RelatedOver(files, match, take, code) ==
  IF files = << >> THEN << >>
  ELSE RelatedIn(Head(files), match, take, code)
       \o RelatedOver(Tail(files), match, take, code)

\* the property list of concept c is in the order of the document
PropertyOrder(c) ==
  LET p == c.property
  IN  /\ Len(p) >= 3
      /\ p[1].code = "class"
      /\ p[1].value \in Kinds
      /\ \E r \in Range(rows[p[1].value]) : String(r[1]) = c.code /\ String(r[2]) = c.display
      /\ p[2].code = "status"
      /\ p[2].value = "active"
      /\ p[3].code = "abstract"
      /\ \A i \in 4..Len(p) : p[i].code \in {"parent", "child"}
      /\ \A i, j \in 4..Len(p) : (i < j /\ p[i].code = "child") => p[j].code = "child"
      /\ IsSubseq(ValuesOf(c, "parent"), RelatedOver(ParentSources[p[1].value], 1, 0, c.code))
      /\ IsSubseq(ValuesOf(c, "child"), RelatedOver(ChildSources[p[1].value], 0, 1, c.code))

\* C7: the property list of every concept is class (its kind), status (active),
\* abstract, then its parent references, then its child references, the
\* references of one relation grouped by relationship file in the configured
\* order and, within a file, in row order; before and after validation and
\* deduplication, and in the written document.
C7_PropertyOrder ==
  /\ \A c \in Range(templateJson.concept) : PropertyOrder(c)
  /\ \A c \in Range(output) : PropertyOrder(c)
  /\ \A c \in Range(validationInput) : PropertyOrder(c)

\* a written concept that kept a parent and a child through validation with
\* cleanup and deduplication
C7_Witness ==
  /\ outputWritten
  /\ cleanupInvalidRefs(config)
  /\ \E c \in Range(output) :
       /\ Len(ValuesOf(c, "parent")) >= 1
       /\ Len(ValuesOf(c, "child")) >= 1

\* a concept list in kind order and, within a kind, in the row order of its file
ListedInOrder(concepts) ==
  \A i, j \in 1..Len(concepts) :
    i < j =>
      LET a == concepts[i]
          b == concepts[j]
      IN  /\ Rank(KindOf(a)) <= Rank(KindOf(b))
          /\ KindOf(a) = KindOf(b) =>
               \E m, n \in 1..Len(rows[KindOf(a)]) :
                 /\ m < n
                 /\ String(rows[KindOf(a)][m][1]) = a.code
                 /\ String(rows[KindOf(a)][m][2]) = a.display
                 /\ String(rows[KindOf(b)][n][1]) = b.code
                 /\ String(rows[KindOf(b)][n][2]) = b.display

\* C8: the processors run in the order SUBS, VTM, GP, GPU, GPP, TPU, TP, TPP; in
\* the concept list, and in the written document, a concept of an earlier kind
\* precedes every concept of a later kind, and the concepts of one kind are in the
\* row order of the kind's entity file.
C8_KindOrder ==
  /\ LET ran == SelectSeq(stages, LAMBDA st : st \in Kinds)
     IN  /\ ran = SubSeq(KindOrder, 1, Len(ran))
         /\ pc \in Kinds => pc = KindOrder[Len(ran) + 1]
         /\ failedAt \in Kinds => failedAt = KindOrder[Len(ran) + 1]
  /\ ListedInOrder(templateJson.concept)
  /\ ListedInOrder(output)

\* the written document lists a TPU concept and, after it, a TP concept
C8_Witness ==
  /\ outputWritten
  /\ \E i, j \in 1..Len(output) :
       i < j /\ KindOf(output[i]) = "TPU" /\ KindOf(output[j]) = "TP"

\* C9: when the entity file or a relationship file of kind K is not found, the
\* processor of K raises before appending a concept: the run is in its error
\* path, exactly the processors before K have completed, no concept of K or of a
\* later kind is in the list, validation and deduplication have not run, and the
\* output document is not written.
C9_MissingFileAborts ==
  missing # {} =>
    /\ errored
    /\ failedAt \in Kinds
    /\ missing \cap ({failedAt} \cup findRelationshipFiles(failedAt)) # {}
    /\ stages = SubSeq(KindOrder, 1, Rank(failedAt) - 1)
    /\ \A c \in Range(templateJson.concept) : Rank(KindOf(c)) < Rank(failedAt)
    /\ validationInput = << >>
    /\ validationResult = NoResult
    /\ dedupCalls = << >>
    /\ ~outputWritten
    /\ ~reportWritten

\* the GP processor found its entity file and not its GP-to-TP file, after the
\* VTM processor had appended a concept
C9_Witness ==
  /\ pc = "done"
  /\ failedAt = "GP"
  /\ missing = {"gptotp"}
  /\ Len(templateJson.concept) >= 1

C12_FatalErrorExitsNonZero ==
  (pc = "done" /\ errored) => (exitCode # 0 /\ ~tempExists)

\* validateParentChildReferences has returned
Validated == "validate" \in Range(stages)

\* the number of parent and child properties of a concept list
RECURSIVE RelationshipEntries(_)
RelationshipEntries(concepts) ==
  IF concepts = << >> THEN 0
  ELSE Len(SelectSeq(Head(concepts).property, LAMBDA p : p.code \in {"parent", "child"}))
       + RelationshipEntries(Tail(concepts))

\* C13: with cleanup enabled, removedCount is the number of parent and child
\* properties the concepts had before validation and no longer have after it,
\* and is invalidParentRefs + invalidChildRefs; with cleanup disabled it is 0.
C13_RemovedCountIsEntriesRemoved ==
  Validated =>
    LET stats == validationResult.stats
    IN  IF cleanupInvalidRefs(config)
        THEN /\ stats.removedCount =
                  RelationshipEntries(validationInput) - RelationshipEntries(templateJson.concept)
             /\ stats.removedCount = stats.invalidParentRefs + stats.invalidChildRefs
        ELSE stats.removedCount = 0

\* with cleanup enabled the validator removed an invalid parent and an invalid
\* child reference and kept a valid one
C13_Witness ==
  /\ Validated
  /\ cleanupInvalidRefs(config)
  /\ validationResult.stats.invalidParentRefs >= 1
  /\ validationResult.stats.invalidChildRefs >= 1
  /\ RelationshipEntries(templateJson.concept) >= 1

\* C14: with cleanup disabled, the concept list after validation is the concept
\* list before it, the references recorded as invalid included.
C14_NoCleanupNoChange ==
  (Validated /\ config.cleanupInvalidReferences = "false") =>
    templateJson.concept = validationInput

\* with cleanup disabled the validator recorded an invalid reference
C14_Witness ==
  /\ Validated
  /\ config.cleanupInvalidReferences = "false"
  /\ ~validationResult.valid
  /\ validationResult.stats.removedCount = 0

\* the {concept, reference} entries of the properties named kind whose valueCode
\* is the code of no concept of the list, in document order
RECURSIVE DanglingOf(_, _, _)
DanglingOf(concepts, kind, all) ==
  IF concepts = << >> THEN << >>
  ELSE LET c == Head(concepts)
           sel == SelectSeq(c.property,
                            LAMBDA p : p.code = kind
                                       /\ \A d \in Range(all) : d.code # p.value)
       IN  [i \in 1..Len(sel) |-> [concept |-> c.code, reference |-> sel[i].value]]
           \o DanglingOf(Tail(concepts), kind, all)

\* C15: whatever the cleanup flag, valid is true exactly when no parent or child
\* property names a code of no concept, the two lists hold one entry per such
\* property, and the two counts are the lengths of the lists.
C15_ResultListsDangling ==
  Validated =>
    LET parent == DanglingOf(validationInput, "parent", validationInput)
        child == DanglingOf(validationInput, "child", validationInput)
    IN  /\ validationResult.valid <=> (parent = << >> /\ child = << >>)
        /\ validationResult.invalidReferences.parent = parent
        /\ validationResult.invalidReferences.child = child
        /\ validationResult.stats.invalidParentRefs = Len(parent)
        /\ validationResult.stats.invalidChildRefs = Len(child)

\* the validator recorded at least one invalid reference
FoundInvalid ==
  Len(validationResult.invalidReferences.parent)
    + Len(validationResult.invalidReferences.child) > 0

\* validation.generateReport of the loaded configuration is set
ReportWanted == config.hasValidation /\ config.generateReport = "true"

\* C16: the report is written only if the validator found an invalid reference
\* and generateReport is set, and a run that ends without error in that case has
\* written it, cleanup or not; it is written after the output document, which
\* has no validation member; and a run in which invalid references were found
\* does not fail at the validation.
C16_ReportIffInvalidAndFlag ==
  /\ reportWritten => (FoundInvalid /\ ReportWanted)
  /\ (pc = "done" /\ ~errored /\ FoundInvalid /\ ReportWanted) => reportWritten
  /\ reportWritten =>
       /\ outputWritten
       /\ \E i, j \in 1..Len(stages) : i < j /\ stages[i] = "write" /\ stages[j] = "report"
  /\ "validation" \notin DOMAIN outputDocument
  /\ (Validated /\ FoundInvalid) => failedAt \in {"none", "write", "report"}
  /\ (pc = "dedup" /\ FoundInvalid) => ~errored

\* a run with cleanup enabled found invalid references, removed them, wrote the
\* output document and then the report
C16_Witness ==
  /\ pc = "done"
  /\ ~errored
  /\ cleanupInvalidRefs(config)
  /\ validationResult.stats.removedCount >= 1
  /\ outputWritten
  /\ reportWritten

\* the configuration has been loaded
ConfigLoaded == pc # "loadConfig"

TemplateRead == templateJson.title # << >>

Digits == {"0", "1", "2", "3", "4", "5", "6", "7", "8", "9"}

\* exactly eight digits
IsYYYYMMDD(v) == Len(v) = 8 /\ \A i \in 1..8 : v[i] \in Digits

\* YYYY-MM-DDT00:00:00+07:00 of the eight characters of v
DateOf(v) ==
  [i \in 1..10 |-> IF i <= 4 THEN v[i]
                   ELSE IF i \in {5, 8} THEN "-"
                   ELSE IF i < 8 THEN v[i - 1]
                   ELSE v[i - 2]]
  \o << "T", "0", "0", ":", "0", "0", ":", "0", "0", "+", "0", "7", ":", "0", "0" >>

\* C18: the date of the document is YYYY-MM-DDT00:00:00+07:00 when the version is
\* exactly eight digits YYYYMMDD, and the empty string for every other version,
\* one of eight characters that are not all digits included.
C18_DateFromVersion ==
  TemplateRead =>
    templateJson.date = IF IsYYYYMMDD(config.version) THEN DateOf(config.version) ELSE << >>

\* the concepts of the template file whose code is not TEMPLATE, in file order
KeptSeeds ==
  LET idx == {i \in 1..Len(templateFile.concept) : templateFile.concept[i].code # "TEMPLATE"}
      Nth(n) == CHOOSE i \in idx : Cardinality({j \in idx : j <= i}) = n
  IN  [n \in 1..Cardinality(idx) |-> templateFile.concept[Nth(n)]]

\* C19: once the template is read, no concept of the document or of the written
\* output has code TEMPLATE; until validation the document starts with the other
\* concepts of the template file in file order, followed by synthesized concepts
\* only; and version and title are those of the configured version.
C19_TemplateSeedRemoved ==
  /\ \A c \in Range(templateJson.concept) \cup Range(outputDocument.concept) :
       c.code # "TEMPLATE"
  /\ TemplateRead =>
       /\ templateJson.version = config.version
       /\ templateJson.title = TitlePrefix \o config.version
       /\ ~Validated =>
            /\ Len(templateJson.concept) >= Len(KeptSeeds)
            /\ SubSeq(templateJson.concept, 1, Len(KeptSeeds)) = KeptSeeds
            /\ \A i \in (Len(KeptSeeds) + 1)..Len(templateJson.concept) :
                 KindOf(templateJson.concept[i]) \in Kinds
  /\ outputWritten =>
       /\ outputDocument.version = config.version
       /\ outputDocument.title = TitlePrefix \o config.version

\* a template file with the seed concept between two other concepts, read under
\* a version other than the file's, and a synthesized concept appended
C19_Witness ==
  /\ Len(templateFile.concept) = 3
  /\ templateFile.concept[2].code = "TEMPLATE"
  /\ templateFile.concept[1].code = "B"
  /\ templateFile.concept[3].code = "A"
  /\ templateFile.version # config.version
  /\ pc = "validate"
  /\ Len(templateJson.concept) = 3
  /\ KindOf(templateJson.concept[3]) = "TPU"

\* the TPU processor has been called and has returned or thrown
TPUCalled == "TPU" \in Range(stages) \/ failedAt = "TPU"

\* C20: with its relationship files in place, the TPU processor fails exactly
\* when no *_SNAPSHOT.xls file lies in the TMTRF<date> directory, whether or not
\* a TPU<date>.xls file lies in the Concept directory.
C20_TPUFailsIffNoSnapshot ==
  (TPUCalled /\ missing \cap findRelationshipFiles("TPU") = {}) =>
    (failedAt = "TPU" <=> ~snapshot)

\* C21: the totalConcepts of the validation result is the number of concepts of
\* the written output document.
C21_StatsDescribeOutput ==
  outputWritten => validationResult.stats.totalConcepts = Len(outputDocument.concept)

\* the entries of seq other than x, in order
Without(seq, x) == SelectSeq(seq, LAMBDA v : v # x)

\* concept c has a reference for every row of the relationship files of its kind
\* that names it in the match column and another code in the other column
ReferencesComplete(c) ==
  /\ IsSubseq(Without(RelatedOver(ParentSources[KindOf(c)], 1, 0, c.code), c.code),
              ValuesOf(c, "parent"))
  /\ IsSubseq(Without(RelatedOver(ChildSources[KindOf(c)], 0, 1, c.code), c.code),
              ValuesOf(c, "child"))

\* C22: until validation, every concept has one parent reference for each row of
\* a parent-source file of its kind whose column 1 is its code and whose column 0
\* is another code, and one child reference for each row of a child-source file
\* whose column 0 is its code and whose column 1 is another code.
C22_ReferencesComplete ==
  ~Validated => \A c \in Range(templateJson.concept) : ReferencesComplete(c)

\* a row of one of `files` with at least two cells, column 0 = a and column 1 = b
BackedBy(files, a, b) ==
  \E i \in 1..Len(files) :
    \E r \in Range(rows[files[i]]) :
      Len(r) > 1 /\ String(r[1]) = a /\ String(r[2]) = b

\* every parent reference p of c has a row [p, c.code] in a parent-source file of
\* the kind of c, every child reference x a row [c.code, x] in a child-source file
ReferencesSound(c) ==
  /\ KindOf(c) \in Kinds
  /\ \A p \in Range(ValuesOf(c, "parent")) : BackedBy(ParentSources[KindOf(c)], p, c.code)
  /\ \A x \in Range(ValuesOf(c, "child")) : BackedBy(ChildSources[KindOf(c)], c.code, x)

\* C23: every parent reference of a concept is backed by a row with column 1 the
\* concept's code and column 0 the parent, in a parent-source file of its kind;
\* every child reference by a row with column 0 the concept's code and column 1
\* the child, in a child-source file of its kind; for the sources of each kind.
C23_ReferencesSound ==
  /\ \A c \in Range(templateJson.concept) : ReferencesSound(c)
  /\ \A c \in Range(outputDocument.concept) : ReferencesSound(c)

\* a concept with a parent and a child that are not the concept itself, the
\* parent not listed as a child row of it
C23_Witness ==
  /\ pc = "validate"
  /\ \E c \in Range(templateJson.concept) :
       /\ \E p \in Range(ValuesOf(c, "parent")) : p # c.code
       /\ \E x \in Range(ValuesOf(c, "child")) : x # c.code
       /\ KindOf(c) = "VTM"

\* a cell that is absent or holds the empty text
IsEmptyCell(c) == c.t = "undef" \/ c.v = ""

\* the rows of the entity sheet of kind k that are to give a concept: row 0 left
\* out when its first cell is TMTID(k), then every row with a non-empty first cell
DataRows(k) ==
  LET sheet == rows[k]
      body == IF Len(sheet) > 0 /\ Len(sheet[1]) > 0 /\ sheet[1][1] = S("TMTID(" \o k \o ")")
              THEN Tail(sheet) ELSE sheet
  IN  SelectSeq(body, LAMBDA r : Len(r) > 0 /\ ~IsEmptyCell(r[1]))

\* the code and display claimed for a data row
Parsed(r) == [code |-> r[1].v, display |-> IF Len(r) > 1 THEN r[2].v ELSE ""]

\* the codes and displays of the concepts of kind k in the document, in order
ParsedConcepts(k) ==
  LET cs == SelectSeq(templateJson.concept, LAMBDA c : KindOf(c) = k)
  IN  [i \in 1..Len(cs) |-> [code |-> cs[i].code, display |-> cs[i].display]]

\* the kinds whose processor has returned, in call order
KindsRun == SelectSeq(stages, LAMBDA st : st \in Kinds)

\* C24: until validation, the concepts of a kind whose processor has returned are
\* one per row of its sheet that is not the TMTID(<KIND>) header in row 0 and has
\* a non-empty first cell, in row order, with code the text of column 0 and
\* display the text of column 1, or the empty string when column 1 is absent; and
\* the count the processor returned is their number.
C24_RowParsing ==
  ~Validated =>
    \A n \in 1..Len(KindsRun) :
      LET k == KindsRun[n]
      IN  /\ ParsedConcepts(k) = [i \in 1..Len(DataRows(k)) |-> Parsed(DataRows(k)[i])]
          /\ processed[n] = Len(ParsedConcepts(k))

\* the concepts of kind k in a concept list, in order
OfKind(concepts, k) == SelectSeq(concepts, LAMBDA c : KindOf(c) = k)

\* the concepts the processors of `kinds`, called in that order on the files of
\* the distribution, append to an empty collection
RECURSIVE InOrder(_)
InOrder(kinds) ==
  IF kinds = << >> THEN << >>
  ELSE processRows(Head(kinds), rows[Head(kinds)], rows,
                   determineStartIndex(Head(kinds), rows[Head(kinds)]))
       \o InOrder(Tail(kinds))

\* C25: in whatever order the processors are called, the concepts of each kind
\* whose processor has been called are those the call order SUBS, VTM, GP, GPU,
\* GPP, TPU, TP, TPP gives that kind, and once all eight have been called the
\* collection holds as many concepts as that order gives.
C25_OrderIndependent ==
  /\ \A k \in read \cap Kinds :
       OfKind(templateJson.concept, k) = OfKind(InOrder(KindOrder), k)
  /\ \A k \in Kinds \ read : OfKind(templateJson.concept, k) = << >>
  /\ (Kinds \subseteq read) => Len(templateJson.concept) = Len(InOrder(KindOrder))

\* all eight processors have been called, a later kind before an earlier one, and
\* the concept of the earlier kind has a reference
C25_Witness ==
  /\ pc = "applyProcessors"
  /\ Kinds \subseteq read
  /\ Len(templateJson.concept) = 2
  /\ Rank(KindOf(templateJson.concept[1])) > Rank(KindOf(templateJson.concept[2]))
  /\ Len(templateJson.concept[2].property) > 3
  /\ templateJson.concept[1].code = templateJson.concept[2].code

\* the number of entries of seq equal to x
Count(seq, x) == Cardinality({i \in 1..Len(seq) : seq[i] = x})

\* the number of rows [a, b] with at least two cells in the files of `files`
RECURSIVE RowsWith(_, _, _)
RowsWith(files, a, b) ==
  IF files = << >> THEN 0
  ELSE Cardinality({i \in 1..Len(rows[Head(files)]) :
                      /\ Len(rows[Head(files)][i]) > 1
                      /\ String(rows[Head(files)][i][1]) = a
                      /\ String(rows[Head(files)][i][2]) = b})
       + RowsWith(Tail(files), a, b)

\* the codes a relationship cell can name
RefCodes == Codes \cup {""}

\* C26: until validation, a GPP or TPP concept has no parent and no child
\* reference to its own code, whatever rows with two equal columns its files
\* hold, and for every other code v as many parent references to v as its
\* parent-source files have rows [v, code] and as many child references to v as
\* its child-source files have rows [code, v].
C26_SelfRowsContributeNothing ==
  ~Validated =>
    \A c \in Range(templateJson.concept) :
      KindOf(c) \in {"GPP", "TPP"} =>
        \A v \in RefCodes :
          /\ Count(ValuesOf(c, "parent"), v) =
               IF v = c.code THEN 0 ELSE RowsWith(ParentSources[KindOf(c)], v, c.code)
          /\ Count(ValuesOf(c, "child"), v) =
               IF v = c.code THEN 0 ELSE RowsWith(ChildSources[KindOf(c)], c.code, v)

\* a TPP concept whose TPP-to-TPP file holds a row of its code twice and a row
\* from its code to another has the one child reference
C26_Witness ==
  /\ pc = "validate"
  /\ \E c \in Range(templateJson.concept) :
       /\ KindOf(c) = "TPP"
       /\ << N(c.code), N(c.code) >> \in Range(rows["tpptotpp"])
       /\ \E v \in Codes \ {c.code} :
            /\ << N(c.code), N(v) >> \in Range(rows["tpptotpp"])
            /\ ValuesOf(c, "child") = << v >>
            /\ ValuesOf(c, "parent") = << >>

\* a step taken at a processor call keeps the collection as a prefix of the new
\* one, and keeps it whole when the processor throws
OnlyAppends ==
  pc \in Kinds =>
    /\ Len(templateJson'.concept) >= Len(templateJson.concept)
    /\ SubSeq(templateJson'.concept, 1, Len(templateJson.concept)) = templateJson.concept
    /\ errored' => templateJson'.concept = templateJson.concept

\* C27: a step of a processor leaves every concept of the collection where it
\* was and as it was, adding concepts only after them, and a step in which the
\* processor throws leaves the collection as it was.
C27_ProcessorsOnlyAppend == [][OnlyAppends]_vars

\* concepts of two kinds are in the collection, the later kind's after the
\* earlier kind's
C27_Witness ==
  /\ ~Validated
  /\ ~errored
  /\ Len(templateJson.concept) >= 2
  /\ KindOf(templateJson.concept[1]) # KindOf(templateJson.concept[Len(templateJson.concept)])

\* property p is a parent or child reference to the code of no concept of `all`
IsDangling(p, all) ==
  /\ p.code \in {"parent", "child"}
  /\ \A d \in Range(all) : d.code # p.value

\* C28: validation with cleanup leaves the concepts in number and order, each
\* with its code and display; the properties of each concept after it are a
\* subsequence of its properties before, in which every class, status and
\* abstract property and every parent or child reference to the code of a
\* concept remains.
C28_CleanupChangesOnlyDangling ==
  (Validated /\ cleanupInvalidRefs(config)) =>
    /\ Len(templateJson.concept) = Len(validationInput)
    /\ \A i \in 1..Len(validationInput) :
         LET before == validationInput[i]
             after == templateJson.concept[i]
         IN  /\ after.code = before.code
             /\ after.display = before.display
             /\ IsSubseq(after.property, before.property)
             /\ IsSubseq(SelectSeq(before.property,
                                   LAMBDA p : ~IsDangling(p, validationInput)),
                         after.property)

\* cleanup took a dangling reference from a concept and left it a reference to
\* the code of a concept
C28_Witness ==
  /\ Validated
  /\ cleanupInvalidRefs(config)
  /\ Len(validationInput) = 2
  /\ \E i \in 1..Len(validationInput) :
       /\ Len(templateJson.concept[i].property) < Len(validationInput[i].property)
       /\ \E p \in Range(templateJson.concept[i].property) :
            p.code \in {"parent", "child"} /\ ~IsDangling(p, validationInput)

\* a second call with cleanup returns valid, with empty lists and nothing
\* removed, and leaves the collection as the first call left it
SecondCleanupIsNoOp ==
  (stages = << "validate" >> /\ cleanupInvalidRefs(config)) =>
    /\ templateJson'.concept = templateJson.concept
    /\ validationResult'.valid
    /\ validationResult'.invalidReferences.parent = << >>
    /\ validationResult'.invalidReferences.child = << >>
    /\ validationResult'.stats.invalidParentRefs = 0
    /\ validationResult'.stats.invalidChildRefs = 0
    /\ validationResult'.stats.removedCount = 0

\* C29: validateParentChildReferences with cleanup, called again on the
\* collection a first call with cleanup has left, returns valid = true, empty
\* parent and child lists and removedCount 0, and changes nothing.
C29_CleanupIdempotent == [][SecondCleanupIsNoOp]_vars

\* the second call has returned after a first call that removed a parent and a
\* child reference
C29_Witness ==
  /\ stages = << "validate", "validate" >>
  /\ RelationshipEntries(validationInput) >= RelationshipEntries(templateJson.concept) + 2
  /\ RelationshipEntries(templateJson.concept) >= 1
  /\ validationResult.valid

\* a parent or child reference of the written document names no concept of it
OutputHasDangling ==
  \E c \in Range(outputDocument.concept) :
    \E p \in Range(c.property) : IsDangling(p, outputDocument.concept)

\* C30: under a configuration file that loads without a validation section or
\* without a cleanupInvalidReferences value, validation removes nothing and the
\* invalid references it found are in the written output; validation removes
\* references only when the configuration in effect has cleanupInvalidReferences
\* true, and then removes all it found, the defaults of an unreadable file
\* included.
C30_CleanupOptIn ==
  Validated =>
    LET removed == validationResult.stats.removedCount
        found == validationResult.stats.invalidParentRefs
                   + validationResult.stats.invalidChildRefs
        absent == \/ ~configFile.content.hasValidation
                  \/ configFile.content.cleanupInvalidReferences = "undefined"
    IN  /\ (configFile.readable /\ absent) =>
             /\ removed = 0
             /\ (outputWritten /\ found > 0) => OutputHasDangling
        /\ removed > 0 => (config.hasValidation /\ config.cleanupInvalidReferences = "true")
        /\ (config.hasValidation /\ config.cleanupInvalidReferences = "true") =>
             /\ removed = found
             /\ outputWritten => ~OutputHasDangling
        /\ ~configFile.readable => removed = found

\* a run under a configuration file with no validation section has written an
\* output document with a dangling reference
C30_Witness ==
  /\ configFile.readable
  /\ ~configFile.content.hasValidation
  /\ outputWritten
  /\ OutputHasDangling
  /\ ~validationResult.valid

====
